---- MODULE Spec2Model ----
(***************************************************************************)
(* ipfs-publish.py: a command line tool with three subcommands             *)
(*   init <directory> | publish | deploy                                   *)
(* that keeps one record, ipfs-publish.json, in the working directory.     *)
(* Every invocation is a fresh process; the only state shared between      *)
(* invocations is the file system (the config file and the directories).   *)
(*                                                                         *)
(* Strings the program computes on (the add command's output, hashes) are  *)
(* sequences of one-character strings.  Paths and fixed literals are       *)
(* atoms.  Python's None is the empty tuple and a present value v is <<v>>.*)
(* A write of the config file is one step (the file is a few hundred bytes *)
(* written by a single flush at close).                                    *)
(***************************************************************************)
EXTENDS Integers, Sequences, FiniteSets, TLC

\* ---------------------------------------------------------------- bounds
\* Longest versions list the model lets publish build.
MaxVersions == 3

\* ---------------------------------------------------------------- inputs
Procs == {1, 2}
\* The invocations of Spec run one after the other, in one process slot.
SeqProcs == {1}

NL == "\n"

Paths == {"/tmp/site", "/tmp/other"}

Qmaaa == <<"Q", "m", "a", "a", "a">>
Qmbbb == <<"Q", "m", "b", "b", "b">>
Qmccc == <<"Q", "m", "c", "c", "c">>

\* "Qmaaa\nQmbbb\nQmccc\n"
OutThree == Qmaaa \o <<NL>> \o Qmbbb \o <<NL>> \o Qmccc \o <<NL>>
\* "X\nY\n\n"
OutXYBlank == <<"X", NL, "Y", NL, NL>>
\* "X\nY\n"
OutXY == <<"X", NL, "Y", NL>>
\* "Y" : no newline at all
OutNoNewline == <<"Y">>
\* ""  : the add command printed nothing
OutEmpty == <<>>

\* What time.strftime("%Y-%m-%d %H:%M:%S") can return when new() runs.
Stamps == {"2017-03-01 12:00:00", "2017-03-01 12:00:01"}

ErrText == <<"E", "r", "r">>

\* What one run of "ipfs add -q -r <dir>" can do: the text it writes to
\* standard output and to standard error, and its exit status.
AddRuns ==
    { [out |-> o, err |-> <<>>, rc |-> 0] : o \in {OutThree, OutXYBlank, OutXY} }
    \cup { [out |-> OutXY, err |-> ErrText, rc |-> 0],
           [out |-> OutEmpty, err |-> ErrText, rc |-> 1],
           [out |-> OutNoNewline, err |-> <<>>, rc |-> 0] }

\* What one run of the ssh command can do.
SshRuns ==
    { [out |-> <<"o", "k", NL>>, err |-> <<>>, rc |-> 0],
      [out |-> <<>>, err |-> ErrText, rc |-> 1] }

\* Command lines (sys.argv, the program name first).
Argvs ==
    { <<"ipfs-publish.py">>,
      <<"ipfs-publish.py", "init">>,
      <<"ipfs-publish.py", "publish">>,
      <<"ipfs-publish.py", "deploy">>,
      <<"ipfs-publish.py", "status">> }
    \cup { <<"ipfs-publish.py", "init", d>> : d \in Paths }

\* The inputs of the overlapping invocations of SpecRace.
RaceArgvs ==
    { <<"ipfs-publish.py", "init", "/tmp/site">>,
      <<"ipfs-publish.py", "init", "/tmp/other">>,
      <<"ipfs-publish.py", "publish">>,
      <<"ipfs-publish.py", "deploy">> }
RaceAddRuns ==
    { [out |-> o, err |-> <<>>, rc |-> 0] : o \in {OutThree, OutXY} }
RaceStamps == Stamps
RaceSshRuns == { [out |-> <<"o", "k", NL>>, err |-> <<>>, rc |-> 0] }

\* ---------------------------------------------------------------- state
VARIABLES
    file,      \* ipfs-publish.json: [exists, text]
    dirs,      \* the paths that are directories now
    pc,        \* per process: where the invocation is
    argv,      \* per process: sys.argv
    config,    \* per process: the local variable config
    comm,      \* per process: (out, err) as communicate() returned them
    hash_str,  \* per process: the local variable hash_str, <<>> before it is set
    exitcode,  \* per process: the exit status, <<>> while running
    stdout,    \* per process: the lines printed so far
    stderr,    \* per process: what reached the terminal's standard error
    run,       \* per process: what the external command really did, <<>> if not run
    cmds,      \* per process: the shell commands started, in order
    obs,       \* per process: what isfile, json.loads and isdir answered, in order
    writes     \* per process: the texts written to the config file, in order

vars == <<file, dirs, pc, argv, config, comm, hash_str, exitcode, stdout,
          stderr, run, cmds, obs, writes>>

None == <<>>
Some(v) == <<v>>

\* ------------------------------------------------------------ pure parts

\* str.split('\n') : one more piece than there are newlines
RECURSIVE split(_)
split(s) ==
    IF s = <<>> THEN << <<>> >>
    ELSE LET r == split(Tail(s))
         IN  IF Head(s) = NL THEN << <<>> >> \o r
             ELSE << <<Head(s)>> \o Head(r) >> \o Tail(r)

\* hs[-2] raises IndexError on a list shorter than two
HasSecondLast(hs) == Len(hs) >= 2
\* (mutation: hs[-3], the line before the last complete line)
ThirdLast(hs) == IF Len(hs) >= 3 THEN hs[Len(hs) - 2] ELSE hs[1]
SecondLast(hs) == hs[Len(hs) - 1]

\* new(hash_str)
new(h, t) == [date_time |-> t, hash |-> h]

\* the dict init builds
InitConfig(directory) == [directory |-> directory, versions |-> <<>>]

\* json.dumps(config, sort_keys=True, ...) : the members in key order
DumpEntry(e) == << <<"date_time", e.date_time>>, <<"hash", e.hash>> >>
dumps(c) ==
    << <<"directory", c.directory>>,
       <<"versions", [i \in 1..Len(c.versions) |-> DumpEntry(c.versions[i])]>> >>

\* json.loads succeeds, and the keys the program reads are there
Parses(text) ==
    /\ Len(text) = 2
    /\ text[1][1] = "directory"
    /\ text[2][1] = "versions"
LoadEntry(m) == [date_time |-> m[1][2], hash |-> m[2][2]]
loads(text) ==
    [directory |-> text[1][2],
     versions |-> [i \in 1..Len(text[2][2]) |-> LoadEntry(text[2][2][i])]]

NoFile == [exists |-> FALSE, text |-> <<>>]
\* a file json.loads rejects (an empty file)
CorruptFile == [exists |-> TRUE, text |-> <<>>]
FileOf(text) == [exists |-> TRUE, text |-> text]

isfile(f) == f.exists
\* (mutation: the directory test always passes)
isdirAlways(d) == TRUE
isdir(d) == d \in dirs

\* Popen(...).communicate(): a stream that was not piped comes back as None
communicate(r, outPiped, errPiped) ==
    [out |-> IF outPiped THEN Some(r.out) ELSE None,
     err |-> IF errPiped THEN Some(r.err) ELSE None]

\* publish's Popen pipes stdout only
AddPipes == [out |-> TRUE, err |-> FALSE]
\* deploy's Popen pipes stdin and stdout only
SshPipes == [out |-> TRUE, err |-> FALSE]

AddCommand(directory) == <<"ipfs add -q -r ", directory>>

SshCommand(h) ==
    <<"ssh -t basile@basilehenry.com \"ipfs pin add ">> \o h
    \o <<" && ipfs name publish ">> \o h \o <<"\"">>

\* (mutation: deploy takes the oldest version)
DeployPickFirst(versions) == versions[1]
\* the version deploy takes the hash from
DeployPick(versions) == versions[Len(versions)]

\* (mutation: the new hash is compared with the oldest version)
SameAsFirst(c, h) ==
    Len(c.versions) > 0 /\ h = c.versions[1].hash
\* (mutation: the guard is gone)
SameAsNone(c, h) == FALSE
\* the test of line 33
SameAsLast(c, h) ==
    Len(c.versions) > 0 /\ h = c.versions[Len(c.versions)].hash

\* (mutation: the new entry goes to the front)
Prepended(versions, e) == <<e>> \o versions
\* (mutation: the entry is appended to the list as the file holds it now)
AppendedToFile(versions, e) == Append(loads(file.text).versions, e)
\* the list after line 38
Appended(versions, e) == Append(versions, e)

\* the branch publish takes once communicate() has returned
Outcome(c, cm) ==
    LET hs == split(cm.out[1])
    IN  IF ~HasSecondLast(hs) THEN "indexerror"
        ELSE IF cm.err # None THEN "err"
        ELSE IF SameAsLast(c, SecondLast(hs)) THEN "nothing"
        ELSE "append"

\* the branch of main's if/elif chain
Dispatch(a) ==
    IF Len(a) < 2 THEN "usage"
    ELSE IF a[2] = "init" /\ Len(a) > 2 THEN "init"
    ELSE IF a[2] = "publish" THEN "publish"
    ELSE IF a[2] = "deploy" THEN "deploy"
    ELSE "usage"

Line(kind, text) == [kind |-> kind, text |-> text]
Saw(what, answer) == <<what, answer>>
\* an uncaught exception: the traceback goes to standard error, the status is 1
Traceback(exc) == Line("traceback", <<exc>>)
\* a stream of the child that is not piped is the terminal's own
Inherited(r, errPiped) ==
    IF ~errPiped /\ r.err # <<>> THEN <<Line("child", r.err)>> ELSE <<>>

\* ------------------------------------------------------------------ Init
Init ==
    /\ file \in {NoFile, CorruptFile}
    /\ dirs \in SUBSET Paths
    /\ pc = [p \in Procs |-> "idle"]
    /\ argv = [p \in Procs |-> <<>>]
    /\ config = [p \in Procs |-> InitConfig("")]
    /\ comm = [p \in Procs |-> [out |-> None, err |-> None]]
    /\ hash_str = [p \in Procs |-> None]
    /\ exitcode = [p \in Procs |-> None]
    /\ stdout = [p \in Procs |-> <<>>]
    /\ stderr = [p \in Procs |-> <<>>]
    /\ run = [p \in Procs |-> None]
    /\ cmds = [p \in Procs |-> <<>>]
    /\ obs = [p \in Procs |-> <<>>]
    /\ writes = [p \in Procs |-> <<>>]

\* --------------------------------------------------------------- actions
Env == <<dirs>>
Locals == <<config, comm, hash_str, run, cmds, writes, stderr>>

\* a process ends: exit(n)
Exits(p, n) ==
    /\ exitcode' = [exitcode EXCEPT ![p] = Some(n)]
    /\ pc' = [pc EXCEPT ![p] = "done"]

Begins(p, a) ==
    /\ pc[p] = "idle"
    /\ argv' = [argv EXCEPT ![p] = a]

\* main, lines 64-65 and 82-85: usage
MainUsage(p, A) ==
    \E a \in A :
        /\ Dispatch(a) = "usage"
        /\ Begins(p, a)
        /\ stdout' = [stdout EXCEPT ![p] = <<Line("usage", <<>>)>>]
        /\ Exits(p, 1)
        /\ UNCHANGED <<file, Env, Locals, obs>>

\* main, lines 66-71, with init, lines 8-11
MainInit(p, A) ==
    \E a \in A :
        /\ Dispatch(a) = "init"
        /\ Begins(p, a)
        /\ obs' = [obs EXCEPT ![p] = <<Saw("isdir", isdir(a[3]))>>]
        /\ IF isdir(a[3])
           THEN /\ file' = FileOf(dumps(InitConfig(a[3])))
                /\ writes' = [writes EXCEPT ![p] = <<dumps(InitConfig(a[3]))>>]
                /\ Exits(p, 0)
                /\ UNCHANGED stdout
           ELSE /\ stdout' = [stdout EXCEPT ![p] = <<Line("notdir", <<a[3]>>)>>]
                /\ Exits(p, 1)
                /\ UNCHANGED <<file, writes>>
        /\ UNCHANGED <<Env, config, comm, hash_str, run, cmds, stderr>>

\* main, lines 72-77
MainPublish(p, A) ==
    \E a \in A :
        /\ Dispatch(a) = "publish"
        /\ Begins(p, a)
        /\ IF isfile(file)
           THEN /\ pc' = [pc EXCEPT ![p] = "publish"]
                /\ UNCHANGED <<exitcode, stdout>>
           ELSE /\ stdout' = [stdout EXCEPT ![p] = <<Line("needinit", <<>>)>>]
                /\ Exits(p, 1)
        /\ obs' = [obs EXCEPT ![p] = <<Saw("isfile", isfile(file))>>]
        /\ UNCHANGED <<file, Env, Locals>>

\* main, lines 78-81 and 85
MainDeploy(p, A) ==
    \E a \in A :
        /\ Dispatch(a) = "deploy"
        /\ Begins(p, a)
        /\ IF isfile(file)
           THEN /\ pc' = [pc EXCEPT ![p] = "deploy"]
                /\ UNCHANGED exitcode
           ELSE Exits(p, 1)
        /\ obs' = [obs EXCEPT ![p] = <<Saw("isfile", isfile(file))>>]
        /\ UNCHANGED <<file, Env, Locals, stdout>>

\* publish, lines 18-23; the return of line 43's missing else goes to line 75
PublishLoad(p) ==
    /\ pc[p] = "publish"
    /\ IF ~Parses(file.text)
       THEN \* json.loads raises ValueError: traceback, status 1
            /\ obs' = [obs EXCEPT ![p] = Append(@, Saw("loads", FALSE))]
            /\ stderr' = [stderr EXCEPT ![p] = Append(@, Traceback("ValueError"))]
            /\ Exits(p, 1)
            /\ UNCHANGED <<config, stdout>>
       ELSE LET c == loads(file.text)
            IN  /\ config' = [config EXCEPT ![p] = c]
                /\ obs' = [obs EXCEPT ![p] =
                            @ \o <<Saw("loads", TRUE), Saw("isdir", isdir(c.directory))>>]
                /\ IF isdir(c.directory)
                   THEN /\ stdout' = [stdout EXCEPT ![p] =
                                        <<Line("publishing", <<c.directory>>)>>]
                        /\ pc' = [pc EXCEPT ![p] = "popen"]
                        /\ UNCHANGED exitcode
                   ELSE /\ Exits(p, 0)
                        /\ UNCHANGED stdout
                /\ UNCHANGED stderr
    /\ UNCHANGED <<file, Env, argv, comm, hash_str, run, cmds, writes>>

\* publish, lines 24-25
PublishAdd(p, R) ==
    /\ pc[p] = "popen"
    /\ \E r \in R :
        LET cm == communicate(r, AddPipes.out, AddPipes.err)
        IN  /\ Outcome(config[p], cm) = "append"
                => Len(config[p].versions) < MaxVersions
            /\ run' = [run EXCEPT ![p] = Some(r)]
            /\ cmds' = [cmds EXCEPT ![p] = Append(@, AddCommand(config[p].directory))]
            /\ comm' = [comm EXCEPT ![p] = cm]
            /\ stderr' = [stderr EXCEPT ![p] = @ \o Inherited(r, AddPipes.err)]
    /\ pc' = [pc EXCEPT ![p] = "parse"]
    /\ UNCHANGED <<file, Env, argv, config, hash_str, exitcode, stdout,
                   obs, writes>>

\* publish, lines 27-43, then main, line 75
PublishFinish(p, S) ==
    /\ pc[p] = "parse"
    /\ LET hs == split(comm[p].out[1])
           br == Outcome(config[p], comm[p])
       IN  IF br = "indexerror"
           THEN \* hs[-2] raises IndexError: traceback, status 1
                /\ stderr' = [stderr EXCEPT ![p] = Append(@, Traceback("IndexError"))]
                /\ Exits(p, 1)
                /\ UNCHANGED <<file, config, hash_str, stdout, writes>>
           ELSE
                /\ UNCHANGED stderr
                /\ hash_str' = [hash_str EXCEPT ![p] = Some(SecondLast(hs))]
                /\ CASE br = "err" ->
                        /\ stdout' = [stdout EXCEPT ![p] =
                                        Append(@, Line("err", comm[p].err[1]))]
                        /\ Exits(p, 1)
                        /\ UNCHANGED <<file, config, writes>>
                     [] br = "nothing" ->
                        /\ stdout' = [stdout EXCEPT ![p] =
                                        Append(@, Line("nothing", <<>>))]
                        /\ Exits(p, 1)
                        /\ UNCHANGED <<file, config, writes>>
                     [] br = "append" ->
                        \E t \in S :
                        LET c == [config[p] EXCEPT !.versions =
                                    Appended(@, new(SecondLast(hs), t))]
                        IN  /\ stdout' = [stdout EXCEPT ![p] =
                                            Append(@, Line("hash", SecondLast(hs)))]
                            /\ config' = [config EXCEPT ![p] = c]
                            /\ file' = FileOf(dumps(c))
                            /\ writes' = [writes EXCEPT ![p] = Append(@, dumps(c))]
                            /\ Exits(p, 0)
    /\ UNCHANGED <<Env, argv, comm, run, cmds, obs>>

\* deploy, lines 46-51; with no version deploy returns and main exits 0
DeployLoad(p) ==
    /\ pc[p] = "deploy"
    /\ IF ~Parses(file.text)
       THEN /\ obs' = [obs EXCEPT ![p] = Append(@, Saw("loads", FALSE))]
            /\ stderr' = [stderr EXCEPT ![p] = Append(@, Traceback("ValueError"))]
            /\ Exits(p, 1)
            /\ UNCHANGED <<config, hash_str>>
       ELSE LET c == loads(file.text)
            IN  /\ config' = [config EXCEPT ![p] = c]
                /\ obs' = [obs EXCEPT ![p] = Append(@, Saw("loads", TRUE))]
                /\ IF Len(c.versions) > 0
                   THEN /\ hash_str' = [hash_str EXCEPT ![p] =
                                          Some(DeployPick(c.versions).hash)]
                        /\ pc' = [pc EXCEPT ![p] = "ssh"]
                        /\ UNCHANGED exitcode
                   ELSE /\ Exits(p, 0)
                        /\ UNCHANGED hash_str
                /\ UNCHANGED stderr
    /\ UNCHANGED <<file, Env, argv, comm, stdout, run, cmds, writes>>

\* deploy, lines 53-60, then main, line 81
DeploySsh(p, R) ==
    /\ pc[p] = "ssh"
    /\ \E r \in R :
        LET cm == communicate(r, SshPipes.out, SshPipes.err)
        IN  /\ run' = [run EXCEPT ![p] = Some(r)]
            /\ cmds' = [cmds EXCEPT ![p] = Append(@, SshCommand(hash_str[p][1]))]
            /\ comm' = [comm EXCEPT ![p] = cm]
            /\ stderr' = [stderr EXCEPT ![p] = @ \o Inherited(r, SshPipes.err)]
            /\ stdout' = [stdout EXCEPT ![p] =
                            Append(@, IF cm.err # None THEN Line("err", cm.err[1])
                                      ELSE Line("out", cm.out[1]))]
    /\ Exits(p, 0)
    /\ UNCHANGED <<file, Env, argv, config, hash_str, obs, writes>>

\* the process is gone; its slot is free for the next invocation
Reap(p) ==
    /\ pc[p] = "done"
    /\ pc' = [pc EXCEPT ![p] = "idle"]
    /\ argv' = [argv EXCEPT ![p] = <<>>]
    /\ config' = [config EXCEPT ![p] = InitConfig("")]
    /\ comm' = [comm EXCEPT ![p] = [out |-> None, err |-> None]]
    /\ hash_str' = [hash_str EXCEPT ![p] = None]
    /\ exitcode' = [exitcode EXCEPT ![p] = None]
    /\ stdout' = [stdout EXCEPT ![p] = <<>>]
    /\ stderr' = [stderr EXCEPT ![p] = <<>>]
    /\ run' = [run EXCEPT ![p] = None]
    /\ cmds' = [cmds EXCEPT ![p] = <<>>]
    /\ obs' = [obs EXCEPT ![p] = <<>>]
    /\ writes' = [writes EXCEPT ![p] = <<>>]
    /\ UNCHANGED <<file, Env>>

\* the environment: directories made and removed
Mkdir ==
    \E d \in Paths \ dirs :
        /\ dirs' = dirs \cup {d}
        /\ UNCHANGED <<file, pc, argv, config, comm, hash_str, exitcode,
                       stdout, stderr, run, cmds, obs, writes>>

Rmdir ==
    \E d \in dirs :
        /\ dirs' = dirs \ {d}
        /\ UNCHANGED <<file, pc, argv, config, comm, hash_str, exitcode,
                       stdout, stderr, run, cmds, obs, writes>>

\* invocations one after the other, in the one process slot of SeqProcs
Next ==
    \/ \E p \in SeqProcs :
        \/ MainUsage(p, Argvs)
        \/ MainInit(p, Argvs)
        \/ MainPublish(p, Argvs)
        \/ MainDeploy(p, Argvs)
        \/ PublishLoad(p)
        \/ PublishAdd(p, AddRuns)
        \/ PublishFinish(p, Stamps)
        \/ DeployLoad(p)
        \/ DeploySsh(p, SshRuns)
        \/ Reap(p)
    \/ Mkdir
    \/ Rmdir

Spec == Init /\ [][Next]_vars

\* invocations that may overlap, on a working directory whose site directory
\* stays in place
InitRace == Init /\ dirs = {"/tmp/site"} /\ file = NoFile

NextRace ==
    \E p \in Procs :
        \/ MainInit(p, RaceArgvs)
        \/ MainPublish(p, RaceArgvs)
        \/ MainDeploy(p, RaceArgvs)
        \/ PublishLoad(p)
        \/ PublishAdd(p, RaceAddRuns)
        \/ PublishFinish(p, RaceStamps)
        \/ DeployLoad(p)
        \/ DeploySsh(p, RaceSshRuns)
        \/ Reap(p)

SpecRace == InitRace /\ [][NextRace]_vars

\* ------------------------------------------------------------ properties
LastOf(s) == s[Len(s)]
Range(s) == { s[i] : i \in 1..Len(s) }
IsInit(a) == Len(a) = 3 /\ a[2] = "init"
IsPublish(a) == Len(a) >= 2 /\ a[2] = "publish"
IsDeploy(a) == Len(a) >= 2 /\ a[2] = "deploy"
NoNewline(s) == \A i \in 1..Len(s) : s[i] # NL

\* h is the line of o that ends at o's last newline
IsLastCompleteLine(o, h) ==
    \E i \in 0..Len(o), j \in 1..Len(o) :
        /\ i < j
        /\ o[j] = NL
        /\ i = 0 \/ o[i] = NL
        /\ h = SubSeq(o, i + 1, j - 1)
        /\ NoNewline(h)
        /\ NoNewline(SubSeq(o, j + 1, Len(o)))

\* the ssh command line with identifier h in the pin and in the name-publish part
PinAndPublish(h) ==
    <<"ssh -t basile@basilehenry.com \"ipfs pin add ">> \o h
    \o <<" && ipfs name publish ">> \o h \o <<"\"">>

\* the publish of process p has just printed an identifier and exited 0
PublishSucceeds(p) ==
    /\ IsPublish(argv[p])
    /\ exitcode[p] = None
    /\ exitcode'[p] = Some(0)
    /\ Len(stdout'[p]) > 0
    /\ LastOf(stdout'[p]).kind = "hash"

\* C1: a publish that prints the identifier and exits 0, run without overlap,
\* leaves the file holding the record it held before with the same directory
\* and exactly one entry, carrying the printed identifier, added at the end
\* of versions; the earlier entries keep their place and their content.
C1_MonotonicAppend ==
    [][\A p \in SeqProcs :
        PublishSucceeds(p) =>
            /\ Parses(file.text)
            /\ Parses(file'.text)
            /\ LET old == loads(file.text)
                   rec == loads(file'.text)
               IN  /\ rec.directory = old.directory
                   /\ Len(rec.versions) = Len(old.versions) + 1
                   /\ SubSeq(rec.versions, 1, Len(old.versions)) = old.versions
                   /\ LastOf(rec.versions).hash = LastOf(stdout'[p]).text
                   /\ LastOf(rec.versions).date_time \in Stamps]_vars

\* a publish has exited 0 after appending a second entry behind an older one
C1_Witness ==
    \E p \in SeqProcs :
        /\ pc[p] = "done"
        /\ IsPublish(argv[p])
        /\ exitcode[p] = Some(0)
        /\ Len(writes[p]) = 1
        /\ Parses(file.text)
        /\ Len(loads(file.text).versions) = 2

\* C2: when publish gets from the add command the identifier of the last
\* stored entry of a non-empty versions list, it prints "Nothing to update.",
\* exits 1 and does not write the file: the persisted record is unchanged.
C2_IdempotenceGuard ==
    [][\A p \in SeqProcs :
        ( /\ pc[p] = "parse"
          /\ pc'[p] = "done"
          /\ hash_str'[p] # None
          /\ Parses(file.text)
          /\ Len(loads(file.text).versions) > 0
          /\ LastOf(loads(file.text).versions).hash = hash_str'[p][1] )
        => /\ exitcode'[p] = Some(1)
           /\ LastOf(stdout'[p]) = Line("nothing", <<>>)
           /\ writes'[p] = writes[p]
           /\ file' = file]_vars

\* the publish after a first successful one got the same identifier: it has
\* exited 1 and the record holds the one entry of the first
C2_Witness ==
    \E p \in SeqProcs :
        /\ pc[p] = "done"
        /\ IsPublish(argv[p])
        /\ exitcode[p] = Some(1)
        /\ Line("nothing", <<>>) \in Range(stdout[p])
        /\ writes[p] = <<>>
        /\ Parses(file.text)
        /\ Len(loads(file.text).versions) = 1
        /\ loads(file.text).versions[1].hash = hash_str[p][1]

\* C3 as stated: for the output "Qmaaa\nQmbbb\nQmccc\n" the identifier is
\* "Qmbbb", and for "X\nY\n\n" the identifier stored in the new entry is "Y".
C3_AsStated ==
    \A p \in SeqProcs :
        (IsPublish(argv[p]) /\ hash_str[p] # None) =>
            /\ run[p][1].out = OutThree => hash_str[p][1] = Qmbbb
            /\ (run[p][1].out = OutXYBlank /\ exitcode[p] = Some(0))
                   => /\ Parses(file.text)
                      /\ Len(loads(file.text).versions) = 1
                             => loads(file.text).versions[1].hash = <<"Y">>

\* C3 amended: the identifier is the second-to-last piece of the output split
\* on newline, which is the line ended by the output's last newline: "Qmccc"
\* for "Qmaaa\nQmbbb\nQmccc\n" and the empty string for "X\nY\n\n", and that
\* is the identifier stored in the new entry.
C3_Parsing ==
    \A p \in SeqProcs :
        (IsPublish(argv[p]) /\ hash_str[p] # None) =>
            LET o == run[p][1].out
                h == hash_str[p][1]
            IN  /\ IsLastCompleteLine(o, h)
                /\ o = OutThree => h = Qmccc
                /\ o = OutXYBlank => h = <<>>
                /\ exitcode[p] = Some(0) =>
                       /\ Len(writes[p]) = 1
                       /\ LastOf(loads(file.text).versions).hash = h

\* publish has stored the identifier it took from "X\nY\n\n"
C3_Witness ==
    \E p \in SeqProcs :
        /\ pc[p] = "done"
        /\ IsPublish(argv[p])
        /\ exitcode[p] = Some(0)
        /\ run[p] # None
        /\ run[p][1].out = OutXYBlank
        /\ Parses(file.text)
        /\ Len(loads(file.text).versions) = 1
        /\ loads(file.text).versions[1].hash = <<>>

\* C4: when the add command wrote to standard error, publish exits non-zero,
\* appends nothing and does not rewrite the file, and the error text is
\* reported (printed by publish, or shown on the terminal).
C4_StderrIsFatal ==
    \A p \in SeqProcs :
        ( /\ pc[p] = "done"
          /\ IsPublish(argv[p])
          /\ run[p] # None
          /\ run[p][1].err # <<>> )
        => /\ exitcode[p] # Some(0)
           /\ writes[p] = <<>>
           /\ \/ Line("err", run[p][1].err) \in Range(stdout[p])
              \/ Line("child", run[p][1].err) \in Range(stderr[p])

\* C5: publish on a config whose directory is no directory any more exits 1,
\* starts no external command and leaves the record as it was.
C5_MissingDirectoryFails ==
    \A p \in SeqProcs :
        ( /\ pc[p] = "done"
          /\ IsPublish(argv[p])
          /\ Saw("isdir", FALSE) \in Range(obs[p]) )
        => /\ exitcode[p] = Some(1)
           /\ cmds[p] = <<>>
           /\ writes[p] = <<>>

\* what a finished deploy has done, against the record in the file
DeployedLast ==
    \A p \in SeqProcs :
        (pc[p] = "done" /\ IsDeploy(argv[p]) /\ Parses(file.text)) =>
            /\ writes[p] = <<>>
            /\ LET v == loads(file.text).versions
               IN  IF Len(v) > 0
                   THEN cmds[p] = <<PinAndPublish(LastOf(v).hash)>>
                   ELSE cmds[p] = <<>>

\* C6: a finished deploy has started the ssh command exactly once, with the
\* identifier of the last persisted entry in the pin and in the name-publish
\* part, when versions is non-empty, and no command when it is empty; no step
\* of deploy changes the file.
C6_Deploy ==
    /\ []DeployedLast
    /\ [][\A p \in SeqProcs :
            (pc'[p] # pc[p] /\ IsDeploy(argv'[p])) => file' = file]_vars

\* deploy has run on a record of two versions with different identifiers
C6_Witness ==
    \E p \in SeqProcs :
        /\ pc[p] = "done"
        /\ IsDeploy(argv[p])
        /\ Len(cmds[p]) = 1
        /\ Parses(file.text)
        /\ Len(loads(file.text).versions) = 2
        /\ loads(file.text).versions[1].hash # loads(file.text).versions[2].hash

\* C7: "init d" writes the file exactly when d is a directory: the record is
\* then {directory: d, versions: []} whatever the file held, and the exit
\* status is 0; otherwise the exit status is 1 and the file is not written.
C7_Init ==
    [][\A p \in SeqProcs :
        (pc[p] = "idle" /\ IsInit(argv'[p])) =>
            LET d == argv'[p][3]
            IN  IF d \in dirs
                THEN /\ Parses(file'.text)
                     /\ loads(file'.text).directory = d
                     /\ loads(file'.text).versions = <<>>
                     /\ Len(writes'[p]) = 1
                     /\ exitcode'[p] = Some(0)
                ELSE /\ file' = file
                     /\ writes'[p] = <<>>
                     /\ exitcode'[p] = Some(1)]_vars

\* init has just replaced the file by an empty record for its directory
C7_Witness ==
    \E p \in SeqProcs :
        /\ pc[p] = "done"
        /\ IsInit(argv[p])
        /\ exitcode[p] = Some(0)
        /\ Len(writes[p]) = 1
        /\ Parses(file.text)
        /\ loads(file.text) = [directory |-> argv[p][3], versions |-> <<>>]

\* the error kinds an invocation has hit, from what it asked and was answered
UsageError(p) == Dispatch(argv[p]) = "usage"
NotADirectory(p) == Saw("isdir", FALSE) \in Range(obs[p])
MissingConfig(p) == Saw("isfile", FALSE) \in Range(obs[p])
CorruptConfig(p) == Saw("loads", FALSE) \in Range(obs[p])
NothingToUpdate(p) == Line("nothing", <<>>) \in Range(stdout[p])
NoVersions(p) ==
    /\ IsDeploy(argv[p])
    /\ Saw("loads", TRUE) \in Range(obs[p])
    /\ config[p].versions = <<>>
ExternalToolError(p) ==
    run[p] # None /\ (run[p][1].err # <<>> \/ run[p][1].rc # 0)
HitError(p) ==
    \/ UsageError(p)
    \/ NotADirectory(p)
    \/ MissingConfig(p)
    \/ CorruptConfig(p)
    \/ NothingToUpdate(p)
    \/ NoVersions(p)
    \/ ExternalToolError(p)

\* C8: an invocation that hit one of the error kinds ends with exit status 1;
\* exit status 0 is returned only by an invocation that hit none.
C8_ErrorsExitOne ==
    \A p \in SeqProcs :
        (pc[p] = "done" /\ HitError(p)) => exitcode[p] = Some(1)

\* C9: whatever the file holds when an overlapping publish saves, the record
\* it leaves is the one that publish loaded plus its own entry: entries saved
\* by others since it loaded are not in it (last writer wins).
C9_LastWriterWins ==
    [][\A p \in Procs :
        PublishSucceeds(p) =>
            /\ Parses(file'.text)
            /\ LET rec == loads(file'.text)
                   n == Len(config[p].versions)
               IN  /\ rec.directory = config[p].directory
                   /\ Len(rec.versions) = n + 1
                   /\ SubSeq(rec.versions, 1, n) = config[p].versions
                   /\ LastOf(rec.versions).hash = LastOf(stdout'[p]).text]_vars

\* a lost update: both publishes have exited 0 and printed their identifiers,
\* and the identifier of one is in no entry of the file
C9_Witness ==
    \E p \in Procs, q \in Procs :
        /\ p # q
        /\ pc[p] = "done" /\ pc[q] = "done"
        /\ IsPublish(argv[p]) /\ IsPublish(argv[q])
        /\ exitcode[p] = Some(0) /\ exitcode[q] = Some(0)
        /\ Len(writes[p]) = 1 /\ Len(writes[q]) = 1
        /\ LastOf(stdout[p]).kind = "hash" /\ LastOf(stdout[q]).kind = "hash"
        /\ file.text = writes[q][1]
        /\ Parses(file.text)
        /\ \A i \in 1..Len(loads(file.text).versions) :
               loads(file.text).versions[i].hash # LastOf(stdout[p]).text

\* C10: the persisted versions list never holds the same identifier in two
\* adjacent entries, overlapping publishes included.
C10_NoAdjacentDuplicates ==
    Parses(file.text) =>
        LET v == loads(file.text).versions
        IN  \A i \in 1..(Len(v) - 1) : v[i].hash # v[i + 1].hash

\* two overlapping publishes have both saved and the list has two entries
C10_Witness ==
    /\ Parses(file.text)
    /\ Len(loads(file.text).versions) >= 2
    /\ \A p \in Procs :
           pc[p] = "done" /\ IsPublish(argv[p]) /\ Len(writes[p]) = 1

====
